---- MODULE Spec2Model ----
(***************************************************************************)
(* Composition of the serverless web-app stack (ServerlessWebAppStack):    *)
(* one configuration snapshot is turned into the data tier, the API and    *)
(* compute tier, the static-asset tier, the optional dashboard and the     *)
(* stack outputs.                                                          *)
(*                                                                         *)
(* Strings are sequences of one-character strings, so that template        *)
(* literals are concatenations and toLowerCase / toUpperCase are computed  *)
(* character by character.  An optional value (a `?:` field, a value that  *)
(* may be undefined) is a sequence of length 0 (undefined) or 1.           *)
(***************************************************************************)
EXTENDS Integers, Sequences, FiniteSets, TLC

\* ------------------------------------------------------------------------
\* Bounds of the model
\* ------------------------------------------------------------------------
MaxTables == 2
MaxRuns == 2

\* options on a command line of the deployment script
MaxArgs == 3

\* ------------------------------------------------------------------------
\* JavaScript values
\* ------------------------------------------------------------------------
None == <<>>
Some(x) == <<x>>

\* truthiness of an optional boolean (undefined and false are falsy)
TruthyBool(o) == o # None /\ o[1]

\* truthiness of an optional string (undefined and '' are falsy)
TruthyStr(o) == o # None /\ o[1] # <<>>

\* truthiness of an optional object (only undefined is falsy)
TruthyObj(o) == o # None

UpperLetters ==
  <<"A", "B", "C", "D", "E", "F", "G", "H", "I", "J", "K", "L", "M",
    "N", "O", "P", "Q", "R", "S", "T", "U", "V", "W", "X", "Y", "Z">>

LowerLetters ==
  <<"a", "b", "c", "d", "e", "f", "g", "h", "i", "j", "k", "l", "m",
    "n", "o", "p", "q", "r", "s", "t", "u", "v", "w", "x", "y", "z">>

toLowerCase(s) ==
  [i \in 1..Len(s) |->
     IF \E k \in 1..26 : UpperLetters[k] = s[i]
     THEN LowerLetters[CHOOSE k \in 1..26 : UpperLetters[k] = s[i]]
     ELSE s[i]]

toUpperCase(s) ==
  [i \in 1..Len(s) |->
     IF \E k \in 1..26 : LowerLetters[k] = s[i]
     THEN UpperLetters[CHOOSE k \in 1..26 : LowerLetters[k] = s[i]]
     ELSE s[i]]

\* the set of elements of a sequence
Range(s) == {s[i] : i \in 1..Len(s)}

\* ------------------------------------------------------------------------
\* String literals used in more than one place
\* ------------------------------------------------------------------------
dynamodb == <<"d", "y", "n", "a", "m", "o", "d", "b">>
auroraServerless ==
  <<"a", "u", "r", "o", "r", "a", "-", "s", "e", "r", "v", "e", "r", "l", "e", "s", "s">>
prod == <<"p", "r", "o", "d">>
dash == <<"-">>

\* `${projectName}-${environment}${tail}`
Named(projectName, environment, tail) ==
  projectName \o dash \o environment \o tail

RETAIN == "RETAIN"
DESTROY == "DESTROY"

\* environment === 'prod' ? cdk.RemovalPolicy.RETAIN : cdk.RemovalPolicy.DESTROY
RemovalPolicyOf(environment) == IF environment = prod THEN RETAIN ELSE DESTROY

\* ------------------------------------------------------------------------
\* Configuration snapshots (AppConfig)
\* ------------------------------------------------------------------------
ProjectNames == {<<"a", "p", "p">>}

\* the default, production, and a tag outside dev / staging / prod
Environments == {<<"d", "e", "v">>, prod, <<"q", "a">>}

\* table descriptors; two of the names differ only in letter case
TableCatalog ==
  <<[name |-> <<"U", "s", "e", "r", "s">>,
     partitionKey |-> <<"u", "s", "e", "r", "I", "d">>,
     sortKey |-> None,
     gsi |-> Some(<<[indexName |-> <<"E", "m", "a", "i", "l", "I", "n", "d", "e", "x">>,
                     partitionKey |-> <<"e", "m", "a", "i", "l">>,
                     sortKey |-> None]>>)],
    [name |-> <<"I", "t", "e", "m", "s">>,
     partitionKey |-> <<"i", "d">>,
     sortKey |-> Some(<<"c", "r", "e", "a", "t", "e", "d", "A", "t">>),
     gsi |-> None],
    [name |-> <<"u", "s", "e", "r", "s">>,
     partitionKey |-> <<"i", "d">>,
     sortKey |-> None,
     gsi |-> None]>>

\* the descriptors of the catalog at the positions in S, in catalog order
Pick(S) ==
  [k \in 1..Cardinality(S) |->
     TableCatalog[CHOOSE i \in S : Cardinality({j \in S : j < i}) = k - 1]]

\* table lists of at most MaxTables descriptors with pairwise distinct names
\* (a table's construct id is `${name}Table`, unique within the construct)
TableLists ==
  {Pick(S) : S \in {T \in SUBSET (1..Len(TableCatalog)) : Cardinality(T) <= MaxTables}}

AuroraConfigs ==
  {[databaseName |-> <<"a", "p", "p", "d", "b">>,
    masterUsername |-> <<"a", "d", "m", "i", "n">>,
    engine |-> <<"p", "o", "s", "t", "g", "r", "e", "s">>,
    enableHttpEndpoint |-> Some(TRUE)]}

DatabaseConfigs ==
  [type : {dynamodb, auroraServerless},
   dynamoTables : {None} \cup {Some(l) : l \in TableLists},
   auroraConfig : {None} \cup {Some(a) : a \in AuroraConfigs}]

CustomDomains ==
  {[domainName |-> <<"a", ".", "i", "o">>, certificateArn |-> None],
   [domainName |-> <<"a", ".", "i", "o">>,
    certificateArn |-> Some(<<"a", "r", "n", ":", "c", "e", "r", "t">>)]}

S3Configs ==
  [enableWebsiteHosting : BOOLEAN,
   enableCloudFront : {None, Some(FALSE), Some(TRUE)},
   customDomain : {None} \cup {Some(d) : d \in CustomDomains}]

ApiConfigs == {[stageName |-> <<"a", "p", "i">>]}

LambdaConfigs == {[timeout |-> 30, memorySize |-> 256]}

MonitoringConfigs ==
  {[enableXRay |-> TRUE, enableCloudWatchLogs |-> TRUE, logRetentionDays |-> 14]}

AppConfigs ==
  [projectName : ProjectNames,
   environment : Environments,
   database : DatabaseConfigs,
   api : ApiConfigs,
   lambda : LambdaConfigs,
   s3 : S3Configs,
   monitoring : {None} \cup {Some(m) : m \in MonitoringConfigs}]

\* ------------------------------------------------------------------------
\* State
\* ------------------------------------------------------------------------
VARIABLES
  config,     \* the configuration snapshot handed to the stack
  pc,         \* position in ServerlessWebAppStack.constructor
  database,   \* the DatabaseConstruct instance's fields
  api,        \* the ApiConstruct instance's fields
  s3,         \* the S3Construct instance's fields
  monitoring, \* the MonitoringConstruct instance, when one was constructed
  outputs,    \* the stack's CfnOutputs, in the order of their creation
  run,        \* which composition of the snapshot this is
  prev,       \* the object graph of the composition before this one
  lookup,     \* the last call of DatabaseConstruct.getDynamoTable and its outcome
  app,        \* bin/app.ts: its context, process environment and the stack it names
  sh          \* scripts/deploy.sh: its position, shell variables and effects

vars == <<config, pc, database, api, s3, monitoring, outputs, run, prev, lookup, app, sh>>

\* bin/app.ts and scripts/deploy.sh when they are not the program being run
AppNotRun == [pc |-> "off"]
ScriptNotRun == [pc |-> "off"]

\* ------------------------------------------------------------------------
\* DatabaseConstruct
\* ------------------------------------------------------------------------
\* the instance before its constructor body runs: every field undefined
NewDatabaseConstruct ==
  [dynamoTables |-> None, auroraCluster |-> None, auroraSecret |-> None, vpc |-> None]

\* NewTable with removalPolicy: cdk.RemovalPolicy.DESTROY in every environment
NewTable_AlwaysDestroy(tableConfig, projectName, environment) ==
  [id |-> tableConfig.name \o <<"T", "a", "b", "l", "e">>,
   tableName |-> Named(projectName, environment, dash \o tableConfig.name),
   partitionKey |-> tableConfig.partitionKey,
   sortKey |-> tableConfig.sortKey,
   removalPolicy |-> DESTROY,
   pointInTimeRecovery |-> (environment = prod),
   globalSecondaryIndexes |->
     IF TruthyObj(tableConfig.gsi) THEN tableConfig.gsi[1] ELSE <<>>]

\* new dynamodb.Table(this, `${tableConfig.name}Table`, {...}) with its indexes
NewTable(tableConfig, projectName, environment) ==
  [id |-> tableConfig.name \o <<"T", "a", "b", "l", "e">>,
   tableName |-> Named(projectName, environment, dash \o tableConfig.name),
   partitionKey |-> tableConfig.partitionKey,
   sortKey |-> tableConfig.sortKey,
   removalPolicy |-> RemovalPolicyOf(environment),
   pointInTimeRecovery |-> (environment = prod),
   globalSecondaryIndexes |->
     IF TruthyObj(tableConfig.gsi) THEN tableConfig.gsi[1] ELSE <<>>]

\* obj[key] = value on a map kept as a sequence of entries in insertion order
MapPut(map, key, value) ==
  IF \E i \in 1..Len(map) : map[i].key = key
  THEN [i \in 1..Len(map) |->
          IF map[i].key = key THEN [key |-> key, value |-> value] ELSE map[i]]
  ELSE Append(map, [key |-> key, value |-> value])

\* property lookup obj[key]: undefined when the key is absent
MapGet(map, key) ==
  IF \E i \in 1..Len(map) : map[i].key = key
  THEN Some(map[CHOOSE i \in 1..Len(map) : map[i].key = key].value)
  ELSE None

RECURSIVE TablesFrom(_, _, _, _)
\* config.dynamoTables.forEach(...) of setupDynamoDB, from descriptor i on
TablesFrom(tableConfigs, i, projectName, environment) ==
  IF i = 0 THEN <<>>
  ELSE MapPut(TablesFrom(tableConfigs, i - 1, projectName, environment),
              tableConfigs[i].name,
              NewTable(tableConfigs[i], projectName, environment))

setupDynamoDB(this, dbConfig, projectName, environment) ==
  IF ~TruthyObj(dbConfig.dynamoTables) THEN this
  ELSE [this EXCEPT !.dynamoTables =
          Some(TablesFrom(dbConfig.dynamoTables[1], Len(dbConfig.dynamoTables[1]),
                          projectName, environment))]

\* setupAuroraServerless with autoPause: cdk.Duration.minutes(10) in every environment
setupAuroraServerless_AlwaysPauses(this, dbConfig, projectName, environment) ==
  IF ~TruthyObj(dbConfig.auroraConfig) THEN this
  ELSE [this EXCEPT
          !.vpc = Some([vpcName |-> Named(projectName, environment, <<"-", "v", "p", "c">>),
                        maxAzs |-> 2,
                        natGateways |-> IF environment = prod THEN 2 ELSE 1]),
          !.auroraSecret =
            Some([secretName |-> Named(projectName, environment,
                    <<"-", "a", "u", "r", "o", "r", "a", "-", "c", "r", "e", "d",
                      "e", "n", "t", "i", "a", "l", "s">>),
                  username |-> dbConfig.auroraConfig[1].masterUsername,
                  secretArn |-> <<"${AuroraSecret.Arn}">>]),
          !.auroraCluster =
            Some([clusterIdentifier |->
                    Named(projectName, environment, <<"-", "a", "u", "r", "o", "r", "a">>),
                  engine |-> IF dbConfig.auroraConfig[1].engine = <<"m", "y", "s", "q", "l">>
                             THEN "auroraMysql" ELSE "auroraPostgres",
                  defaultDatabaseName |-> dbConfig.auroraConfig[1].databaseName,
                  autoPauseMinutes |-> 10,
                  minCapacity |-> 2,
                  maxCapacity |-> IF environment = prod THEN 64 ELSE 16,
                  removalPolicy |-> RemovalPolicyOf(environment),
                  deletionProtection |-> (environment = prod),
                  clusterArn |-> <<"${AuroraCluster.Arn}">>,
                  socketAddress |-> <<"${AuroraCluster.Endpoint}">>])]

\* DatabaseConstruct.setupAuroraServerless
setupAuroraServerless(this, dbConfig, projectName, environment) ==
  IF ~TruthyObj(dbConfig.auroraConfig) THEN this
  ELSE [this EXCEPT
          !.vpc = Some([vpcName |-> Named(projectName, environment, <<"-", "v", "p", "c">>),
                        maxAzs |-> 2,
                        natGateways |-> IF environment = prod THEN 2 ELSE 1]),
          !.auroraSecret =
            Some([secretName |-> Named(projectName, environment,
                    <<"-", "a", "u", "r", "o", "r", "a", "-", "c", "r", "e", "d",
                      "e", "n", "t", "i", "a", "l", "s">>),
                  username |-> dbConfig.auroraConfig[1].masterUsername,
                  secretArn |-> <<"${AuroraSecret.Arn}">>]),
          !.auroraCluster =
            Some([clusterIdentifier |->
                    Named(projectName, environment, <<"-", "a", "u", "r", "o", "r", "a">>),
                  engine |-> IF dbConfig.auroraConfig[1].engine = <<"m", "y", "s", "q", "l">>
                             THEN "auroraMysql" ELSE "auroraPostgres",
                  defaultDatabaseName |-> dbConfig.auroraConfig[1].databaseName,
                  autoPauseMinutes |-> IF environment = prod THEN 0 ELSE 10,
                  minCapacity |-> 2,
                  maxCapacity |-> IF environment = prod THEN 64 ELSE 16,
                  removalPolicy |-> RemovalPolicyOf(environment),
                  deletionProtection |-> (environment = prod),
                  clusterArn |-> <<"${AuroraCluster.Arn}">>,
                  socketAddress |-> <<"${AuroraCluster.Endpoint}">>])]

\* DatabaseConstruct.constructor that sets up whatever sub-spec is present
DatabaseConstruct_BothBranches(dbConfig, projectName, environment) ==
  setupAuroraServerless(
    setupDynamoDB(NewDatabaseConstruct, dbConfig, projectName, environment),
    dbConfig, projectName, environment)

\* DatabaseConstruct.constructor
DatabaseConstruct(dbConfig, projectName, environment) ==
  IF dbConfig.type = dynamodb
  THEN setupDynamoDB(NewDatabaseConstruct, dbConfig, projectName, environment)
  ELSE IF dbConfig.type = auroraServerless
       THEN setupAuroraServerless(NewDatabaseConstruct, dbConfig, projectName, environment)
       ELSE NewDatabaseConstruct

\* getDynamoTable(tableName) { return this.dynamoTables?.[tableName]; }
\* the outcome of the call: whether it raised, and the value it returned
getDynamoTable(this, tableName) ==
  [threw |-> FALSE,
   value |-> IF TruthyObj(this.dynamoTables)
             THEN MapGet(this.dynamoTables[1], tableName)
             ELSE None]

\* ------------------------------------------------------------------------
\* ApiConstruct
\* ------------------------------------------------------------------------
\* the instance before its constructor body runs.  roles and environments
\* are the objects the construct allocates; a reference to one of them is
\* its index, so two holders of the same index hold the same object.
NewApiConstruct ==
  [restApi |-> None, lambdaFunctions |-> <<>>, roles |-> <<>>, environments |-> <<>>]

\* new apigateway.RestApi(this, 'RestApi', {...})
NewRestApi(apiConfig, projectName, environment) ==
  [restApiName |-> Named(projectName, environment, <<"-", "a", "p", "i">>),
   stageName |-> apiConfig.stageName,
   url |-> <<"${RestApi.Url}">>,
   methods |-> <<>>]

RECURSIVE GrantTables(_, _, _)
\* Object.values(database.dynamoTables).forEach(table => table.grantReadWriteData(role))
GrantTables(statements, tables, i) ==
  IF i = 0 THEN statements
  ELSE Append(GrantTables(statements, tables, i - 1),
              [actions |-> {"dynamodb:ReadWriteData"}, resource |-> tables[i].value.id])

\* createLambdaExecutionRole without database.auroraSecret.grantRead(role)
createLambdaExecutionRole_NoSecretRead(db) ==
  LET withTables ==
        IF TruthyObj(db.dynamoTables)
        THEN GrantTables(<<>>, db.dynamoTables[1], Len(db.dynamoTables[1]))
        ELSE <<>>
      withCluster ==
        IF TruthyObj(db.auroraCluster)
        THEN Append(withTables,
               [actions |-> {"rds-data:ExecuteStatement",
                             "rds-data:BatchExecuteStatement",
                             "rds-data:BeginTransaction",
                             "rds-data:CommitTransaction",
                             "rds-data:RollbackTransaction"},
                resource |-> db.auroraCluster[1].clusterArn])
        ELSE withTables
  IN [assumedBy |-> "lambda.amazonaws.com",
      managedPolicies |-> {"service-role/AWSLambdaBasicExecutionRole",
                           "AWSXRayDaemonWriteAccess"},
      statements |-> withCluster]

createLambdaExecutionRole(db) ==
  LET withTables ==
        IF TruthyObj(db.dynamoTables)
        THEN GrantTables(<<>>, db.dynamoTables[1], Len(db.dynamoTables[1]))
        ELSE <<>>
      withCluster ==
        IF TruthyObj(db.auroraCluster)
        THEN Append(withTables,
               [actions |-> {"rds-data:ExecuteStatement",
                             "rds-data:BatchExecuteStatement",
                             "rds-data:BeginTransaction",
                             "rds-data:CommitTransaction",
                             "rds-data:RollbackTransaction"},
                resource |-> db.auroraCluster[1].clusterArn])
        ELSE withTables
      withSecret ==
        IF TruthyObj(db.auroraCluster) /\ TruthyObj(db.auroraSecret)
        THEN Append(withCluster,
               [actions |-> {"secretsmanager:Read"},
                resource |-> db.auroraSecret[1].secretArn])
        ELSE withCluster
  IN [assumedBy |-> "lambda.amazonaws.com",
      managedPolicies |-> {"service-role/AWSLambdaBasicExecutionRole",
                           "AWSXRayDaemonWriteAccess"},
      statements |-> withSecret]

RECURSIVE TableVariables(_, _, _)
\* commonEnvironment[`DYNAMODB_TABLE_${name.toUpperCase()}`] = table.tableName
TableVariables(env, tables, i) ==
  IF i = 0 THEN env
  ELSE MapPut(TableVariables(env, tables, i - 1),
              <<"D", "Y", "N", "A", "M", "O", "D", "B", "_", "T", "A", "B", "L", "E", "_">>
                \o toUpperCase(tables[i].key),
              tables[i].value.tableName)

\* the commonEnvironment object of createLambdaFunctions
commonEnvironment(projectName, environment, db) ==
  LET base ==
        <<[key |-> <<"P", "R", "O", "J", "E", "C", "T", "_", "N", "A", "M", "E">>,
           value |-> projectName],
          [key |-> <<"E", "N", "V", "I", "R", "O", "N", "M", "E", "N", "T">>,
           value |-> environment],
          [key |-> <<"D", "A", "T", "A", "B", "A", "S", "E", "_", "T", "Y", "P", "E">>,
           value |-> IF TruthyObj(db.dynamoTables) THEN dynamodb ELSE auroraServerless]>>
      withTables ==
        IF TruthyObj(db.dynamoTables)
        THEN TableVariables(base, db.dynamoTables[1], Len(db.dynamoTables[1]))
        ELSE base
  IN IF TruthyObj(db.auroraCluster) /\ TruthyObj(db.auroraSecret)
     THEN MapPut(MapPut(withTables,
            <<"A", "U", "R", "O", "R", "A", "_", "C", "L", "U", "S", "T", "E", "R", "_", "A", "R", "N">>,
            db.auroraCluster[1].clusterArn),
            <<"A", "U", "R", "O", "R", "A", "_", "S", "E", "C", "R", "E", "T", "_", "A", "R", "N">>,
            db.auroraSecret[1].secretArn)
     ELSE withTables

GET == <<"G", "E", "T">>
POST == <<"P", "O", "S", "T">>
PUT == <<"P", "U", "T">>
DELETE == <<"D", "E", "L", "E", "T", "E">>
GetItems == <<"G", "e", "t", "I", "t", "e", "m", "s">>
CreateItem == <<"C", "r", "e", "a", "t", "e", "I", "t", "e", "m">>
GetItem == <<"G", "e", "t", "I", "t", "e", "m">>
UpdateItem == <<"U", "p", "d", "a", "t", "e", "I", "t", "e", "m">>
DeleteItem == <<"D", "e", "l", "e", "t", "e", "I", "t", "e", "m">>
GetUsers == <<"G", "e", "t", "U", "s", "e", "r", "s">>
CreateUser == <<"C", "r", "e", "a", "t", "e", "U", "s", "e", "r">>
GetUser == <<"G", "e", "t", "U", "s", "e", "r">>

\* functionConfigs with the second descriptor's name copied from the first
functionConfigs_DuplicateName ==
  <<[name |-> GetItems, method |-> GET, path |-> <<"/", "i", "t", "e", "m", "s">>],
    [name |-> GetItems, method |-> POST, path |-> <<"/", "i", "t", "e", "m", "s">>],
    [name |-> GetItem, method |-> GET,
     path |-> <<"/", "i", "t", "e", "m", "s", "/", "{", "i", "d", "}">>],
    [name |-> UpdateItem, method |-> PUT,
     path |-> <<"/", "i", "t", "e", "m", "s", "/", "{", "i", "d", "}">>],
    [name |-> DeleteItem, method |-> DELETE,
     path |-> <<"/", "i", "t", "e", "m", "s", "/", "{", "i", "d", "}">>],
    [name |-> GetUsers, method |-> GET, path |-> <<"/", "u", "s", "e", "r", "s">>],
    [name |-> CreateUser, method |-> POST, path |-> <<"/", "u", "s", "e", "r", "s">>],
    [name |-> GetUser, method |-> GET,
     path |-> <<"/", "u", "s", "e", "r", "s", "/", "{", "i", "d", "}">>]>>

functionConfigs ==
  <<[name |-> GetItems, method |-> GET, path |-> <<"/", "i", "t", "e", "m", "s">>],
    [name |-> CreateItem, method |-> POST, path |-> <<"/", "i", "t", "e", "m", "s">>],
    [name |-> GetItem, method |-> GET,
     path |-> <<"/", "i", "t", "e", "m", "s", "/", "{", "i", "d", "}">>],
    [name |-> UpdateItem, method |-> PUT,
     path |-> <<"/", "i", "t", "e", "m", "s", "/", "{", "i", "d", "}">>],
    [name |-> DeleteItem, method |-> DELETE,
     path |-> <<"/", "i", "t", "e", "m", "s", "/", "{", "i", "d", "}">>],
    [name |-> GetUsers, method |-> GET, path |-> <<"/", "u", "s", "e", "r", "s">>],
    [name |-> CreateUser, method |-> POST, path |-> <<"/", "u", "s", "e", "r", "s">>],
    [name |-> GetUser, method |-> GET,
     path |-> <<"/", "u", "s", "e", "r", "s", "/", "{", "i", "d", "}">>]>>

\* new lambda.Function(this, `${config.name}Function`, {...}); role and
\* environment are references to the objects passed in
NewFunction(fnConfig, lambdaConfig, projectName, environment, roleRef, envRef) ==
  [id |-> fnConfig.name \o <<"F", "u", "n", "c", "t", "i", "o", "n">>,
   functionName |-> Named(projectName, environment, dash \o toLowerCase(fnConfig.name)),
   role |-> roleRef,
   environment |-> envRef,
   timeout |-> lambdaConfig.timeout,
   memorySize |-> lambdaConfig.memorySize]

RECURSIVE FunctionsFrom(_, _, _, _, _, _, _)
\* functionConfigs.forEach(config => this.lambdaFunctions[config.name] = ...)
FunctionsFrom(configs, i, lambdaConfig, projectName, environment, roleRef, envRef) ==
  IF i = 0 THEN <<>>
  ELSE MapPut(FunctionsFrom(configs, i - 1, lambdaConfig, projectName, environment,
                            roleRef, envRef),
              configs[i].name,
              NewFunction(configs[i], lambdaConfig, projectName, environment,
                          roleRef, envRef))

\* createLambdaFunctions with environment: { ...commonEnvironment }, a copy of
\* the map for every function
createLambdaFunctions_CopiesEnvironment(this, lambdaConfig, projectName, environment, roleRef, db) ==
  LET base == Len(this.environments)
      fns == FunctionsFrom(functionConfigs, Len(functionConfigs), lambdaConfig,
                           projectName, environment, roleRef, base + 1)
  IN [this EXCEPT
        !.environments =
          @ \o [i \in 1..Len(fns) |-> commonEnvironment(projectName, environment, db)],
        !.lambdaFunctions =
          [i \in 1..Len(fns) |->
             [key |-> fns[i].key,
              value |-> [fns[i].value EXCEPT !.environment = base + i]]]]

\* createLambdaFunctions: allocates the one commonEnvironment object and
\* hands the same reference, and the role reference it was given, to every
\* function
createLambdaFunctions(this, lambdaConfig, projectName, environment, roleRef, db) ==
  LET environments == Append(this.environments,
                             commonEnvironment(projectName, environment, db))
      envRef == Len(environments)
  IN [this EXCEPT
        !.environments = environments,
        !.lambdaFunctions =
          FunctionsFrom(functionConfigs, Len(functionConfigs), lambdaConfig,
                        projectName, environment, roleRef, envRef)]

\* resource.addResource(pathPart): the child's full path
addResource(parentPath, pathPart) ==
  IF parentPath # <<>> /\ parentPath[Len(parentPath)] = "/"
  THEN parentPath \o pathPart
  ELSE parentPath \o <<"/">> \o pathPart

\* resource.addMethod(httpMethod, new apigateway.LambdaIntegration(fn))
addMethod(methods, path, httpMethod, fn) ==
  Append(methods, [path |-> path, httpMethod |-> httpMethod, handler |-> fn])

\* setupApiRoutes with PUT /items/{id} integrated with the GetItem function
setupApiRoutes_UpdateOnGetItem(this) ==
  LET fns == this.lambdaFunctions
      itemsResource == addResource(<<"/">>, <<"i", "t", "e", "m", "s">>)
      itemResource == addResource(itemsResource, <<"{", "i", "d", "}">>)
      usersResource == addResource(<<"/">>, <<"u", "s", "e", "r", "s">>)
      userResource == addResource(usersResource, <<"{", "i", "d", "}">>)
      m1 == addMethod(this.restApi[1].methods, itemsResource, GET, MapGet(fns, GetItems))
      m2 == addMethod(m1, itemsResource, POST, MapGet(fns, CreateItem))
      m3 == addMethod(m2, itemResource, GET, MapGet(fns, GetItem))
      m4 == addMethod(m3, itemResource, PUT, MapGet(fns, GetItem))
      m5 == addMethod(m4, itemResource, DELETE, MapGet(fns, DeleteItem))
      m6 == addMethod(m5, usersResource, GET, MapGet(fns, GetUsers))
      m7 == addMethod(m6, usersResource, POST, MapGet(fns, CreateUser))
      m8 == addMethod(m7, userResource, GET, MapGet(fns, GetUser))
  IN [this EXCEPT !.restApi = Some([this.restApi[1] EXCEPT !.methods = m8])]

\* ApiConstruct.setupApiRoutes
setupApiRoutes(this) ==
  LET fns == this.lambdaFunctions
      itemsResource == addResource(<<"/">>, <<"i", "t", "e", "m", "s">>)
      itemResource == addResource(itemsResource, <<"{", "i", "d", "}">>)
      usersResource == addResource(<<"/">>, <<"u", "s", "e", "r", "s">>)
      userResource == addResource(usersResource, <<"{", "i", "d", "}">>)
      m1 == addMethod(this.restApi[1].methods, itemsResource, GET, MapGet(fns, GetItems))
      m2 == addMethod(m1, itemsResource, POST, MapGet(fns, CreateItem))
      m3 == addMethod(m2, itemResource, GET, MapGet(fns, GetItem))
      m4 == addMethod(m3, itemResource, PUT, MapGet(fns, UpdateItem))
      m5 == addMethod(m4, itemResource, DELETE, MapGet(fns, DeleteItem))
      m6 == addMethod(m5, usersResource, GET, MapGet(fns, GetUsers))
      m7 == addMethod(m6, usersResource, POST, MapGet(fns, CreateUser))
      m8 == addMethod(m7, userResource, GET, MapGet(fns, GetUser))
  IN [this EXCEPT !.restApi = Some([this.restApi[1] EXCEPT !.methods = m8])]

\* ApiConstruct.constructor
ApiConstruct(apiConfig, lambdaConfig, projectName, environment, db) ==
  LET withApi == [NewApiConstruct EXCEPT
                    !.restApi = Some(NewRestApi(apiConfig, projectName, environment))]
      withRole == [withApi EXCEPT
                     !.roles = Append(withApi.roles, createLambdaExecutionRole(db))]
      lambdaRole == Len(withRole.roles)
      withFunctions == createLambdaFunctions(withRole, lambdaConfig, projectName,
                                             environment, lambdaRole, db)
  IN setupApiRoutes(withFunctions)

\* ------------------------------------------------------------------------
\* S3Construct
\* ------------------------------------------------------------------------
\* values of Math.random().toString(36).substring(7): base-36 digits, a fresh
\* value at every evaluation
RandomSuffixes == {<<"x">>, <<"4", "f">>}

https == <<"h", "t", "t", "p", "s", ":", "/", "/">>

\* the instance before its constructor body runs
NewS3Construct ==
  [bucket |-> None, distribution |-> None, websiteUrl |-> None,
   distributionDomainName |-> None, originAccessIdentities |-> <<>>,
   certificates |-> <<>>, deployments |-> <<>>]

\* NewBucket with publicReadAccess: config.enableWebsiteHosting alone
NewBucket_PublicWhenHosting(s3Config, projectName, environment, random) ==
  [bucketName |->
     Named(projectName, environment,
           <<"-", "s", "t", "a", "t", "i", "c", "-", "a", "s", "s", "e", "t", "s", "-">>
             \o random),
   versioned |-> (environment = prod),
   removalPolicy |-> RemovalPolicyOf(environment),
   autoDeleteObjects |-> (environment # prod),
   publicReadAccess |-> s3Config.enableWebsiteHosting,
   blockPublicAccess |->
     IF TruthyBool(s3Config.enableCloudFront) THEN "BLOCK_ALL" ELSE "BLOCK_ACLS",
   websiteIndexDocument |->
     IF s3Config.enableWebsiteHosting
     THEN Some(<<"i", "n", "d", "e", "x", ".", "h", "t", "m", "l">>) ELSE None,
   websiteErrorDocument |->
     IF s3Config.enableWebsiteHosting
     THEN Some(<<"e", "r", "r", "o", "r", ".", "h", "t", "m", "l">>) ELSE None,
   bucketWebsiteUrl |-> <<"${StaticAssetsBucket.WebsiteURL}">>,
   resourcePolicy |-> <<>>]

\* new s3.Bucket(this, 'StaticAssetsBucket', {...})
NewBucket(s3Config, projectName, environment, random) ==
  [bucketName |->
     Named(projectName, environment,
           <<"-", "s", "t", "a", "t", "i", "c", "-", "a", "s", "s", "e", "t", "s", "-">>
             \o random),
   versioned |-> (environment = prod),
   removalPolicy |-> RemovalPolicyOf(environment),
   autoDeleteObjects |-> (environment # prod),
   publicReadAccess |->
     (s3Config.enableWebsiteHosting /\ ~TruthyBool(s3Config.enableCloudFront)),
   blockPublicAccess |->
     IF TruthyBool(s3Config.enableCloudFront) THEN "BLOCK_ALL" ELSE "BLOCK_ACLS",
   websiteIndexDocument |->
     IF s3Config.enableWebsiteHosting
     THEN Some(<<"i", "n", "d", "e", "x", ".", "h", "t", "m", "l">>) ELSE None,
   websiteErrorDocument |->
     IF s3Config.enableWebsiteHosting
     THEN Some(<<"e", "r", "r", "o", "r", ".", "h", "t", "m", "l">>) ELSE None,
   bucketWebsiteUrl |-> <<"${StaticAssetsBucket.WebsiteURL}">>,
   resourcePolicy |-> <<>>]

\* createCloudFrontDistribution importing a certificate for every custom domain
createCloudFrontDistribution_AlwaysCertificate(this, s3Config, projectName, environment) ==
  LET originAccessIdentity ==
        [comment |-> <<"O", "A", "I", " ", "f", "o", "r", " ">>
                       \o Named(projectName, environment, <<>>)]
      hasCertificate == TruthyObj(s3Config.customDomain)
      certificate ==
        IF hasCertificate
        THEN Some([certificateArn |->
                     IF TruthyStr(s3Config.customDomain[1].certificateArn)
                     THEN s3Config.customDomain[1].certificateArn[1] ELSE <<>>])
        ELSE None
      distribution ==
        [domainNames |->
           IF TruthyObj(s3Config.customDomain)
                /\ s3Config.customDomain[1].domainName # <<>>
           THEN Some(<<s3Config.customDomain[1].domainName>>) ELSE None,
         certificate |-> certificate,
         defaultRootObject |-> <<"i", "n", "d", "e", "x", ".", "h", "t", "m", "l">>,
         priceClass |->
           IF environment = prod THEN "PRICE_CLASS_ALL" ELSE "PRICE_CLASS_100",
         distributionDomainName |-> <<"${Distribution.DomainName}">>]
  IN [this EXCEPT
        !.originAccessIdentities = Append(@, originAccessIdentity),
        !.bucket = Some([@[1] EXCEPT
                           !.resourcePolicy =
                             Append(@, [principal |-> "OriginAccessIdentity",
                                        actions |-> {"s3:GetObject"}])]),
        !.certificates = IF hasCertificate THEN Append(@, certificate[1]) ELSE @,
        !.distribution = Some(distribution),
        !.distributionDomainName = Some(distribution.distributionDomainName),
        !.websiteUrl = Some(https \o distribution.distributionDomainName)]

\* createCloudFrontDistribution without the assignment of this.websiteUrl
createCloudFrontDistribution_KeepsWebsiteUrl(this, s3Config, projectName, environment) ==
  LET originAccessIdentity ==
        [comment |-> <<"O", "A", "I", " ", "f", "o", "r", " ">>
                       \o Named(projectName, environment, <<>>)]
      hasCertificate ==
        TruthyObj(s3Config.customDomain)
          /\ TruthyStr(s3Config.customDomain[1].certificateArn)
      certificate ==
        IF hasCertificate
        THEN Some([certificateArn |-> s3Config.customDomain[1].certificateArn[1]])
        ELSE None
      distribution ==
        [domainNames |->
           IF TruthyObj(s3Config.customDomain)
                /\ s3Config.customDomain[1].domainName # <<>>
           THEN Some(<<s3Config.customDomain[1].domainName>>) ELSE None,
         certificate |-> certificate,
         defaultRootObject |-> <<"i", "n", "d", "e", "x", ".", "h", "t", "m", "l">>,
         priceClass |->
           IF environment = prod THEN "PRICE_CLASS_ALL" ELSE "PRICE_CLASS_100",
         distributionDomainName |-> <<"${Distribution.DomainName}">>]
  IN [this EXCEPT
        !.originAccessIdentities = Append(@, originAccessIdentity),
        !.bucket = Some([@[1] EXCEPT
                           !.resourcePolicy =
                             Append(@, [principal |-> "OriginAccessIdentity",
                                        actions |-> {"s3:GetObject"}])]),
        !.certificates = IF hasCertificate THEN Append(@, certificate[1]) ELSE @,
        !.distribution = Some(distribution),
        !.distributionDomainName = Some(distribution.distributionDomainName)]

\* S3Construct.createCloudFrontDistribution
createCloudFrontDistribution(this, s3Config, projectName, environment) ==
  LET originAccessIdentity ==
        [comment |-> <<"O", "A", "I", " ", "f", "o", "r", " ">>
                       \o Named(projectName, environment, <<>>)]
      hasCertificate ==
        TruthyObj(s3Config.customDomain)
          /\ TruthyStr(s3Config.customDomain[1].certificateArn)
      certificate ==
        IF hasCertificate
        THEN Some([certificateArn |-> s3Config.customDomain[1].certificateArn[1]])
        ELSE None
      distribution ==
        [domainNames |->
           IF TruthyObj(s3Config.customDomain)
                /\ s3Config.customDomain[1].domainName # <<>>
           THEN Some(<<s3Config.customDomain[1].domainName>>) ELSE None,
         certificate |-> certificate,
         defaultRootObject |-> <<"i", "n", "d", "e", "x", ".", "h", "t", "m", "l">>,
         priceClass |->
           IF environment = prod THEN "PRICE_CLASS_ALL" ELSE "PRICE_CLASS_100",
         distributionDomainName |-> <<"${Distribution.DomainName}">>]
  IN [this EXCEPT
        !.originAccessIdentities = Append(@, originAccessIdentity),
        !.bucket = Some([@[1] EXCEPT
                           !.resourcePolicy =
                             Append(@, [principal |-> "OriginAccessIdentity",
                                        actions |-> {"s3:GetObject"}])]),
        !.certificates = IF hasCertificate THEN Append(@, certificate[1]) ELSE @,
        !.distribution = Some(distribution),
        !.distributionDomainName = Some(distribution.distributionDomainName),
        !.websiteUrl = Some(https \o distribution.distributionDomainName)]

\* new s3deploy.BucketDeployment(this, 'SampleFiles', {...})
addSampleFiles(this) ==
  [this EXCEPT !.deployments =
     Append(@, [sources |-> <<<<"i", "n", "d", "e", "x", ".", "h", "t", "m", "l">>>>])]

\* S3Construct.constructor that never assigns the bucket's website URL
S3Construct_NoBucketWebsiteUrl(s3Config, projectName, environment, random) ==
  LET withBucket == [NewS3Construct EXCEPT
                       !.bucket = Some(NewBucket(s3Config, projectName, environment,
                                                 random))]
      withDistribution ==
        IF TruthyBool(s3Config.enableCloudFront)
        THEN createCloudFrontDistribution(withBucket, s3Config, projectName, environment)
        ELSE withBucket
  IN addSampleFiles(withDistribution)

\* S3Construct.constructor; random is the value Math.random() yields in it
S3Construct(s3Config, projectName, environment, random) ==
  LET withBucket == [NewS3Construct EXCEPT
                       !.bucket = Some(NewBucket(s3Config, projectName, environment,
                                                 random))]
      withUrl ==
        IF s3Config.enableWebsiteHosting /\ ~TruthyBool(s3Config.enableCloudFront)
        THEN [withBucket EXCEPT !.websiteUrl = Some(withBucket.bucket[1].bucketWebsiteUrl)]
        ELSE withBucket
      withDistribution ==
        IF TruthyBool(s3Config.enableCloudFront)
        THEN createCloudFrontDistribution(withUrl, s3Config, projectName, environment)
        ELSE withUrl
  IN addSampleFiles(withDistribution)

\* ------------------------------------------------------------------------
\* MonitoringConstruct
\* ------------------------------------------------------------------------
NewMonitoringConstruct == [dashboard |-> None]

addApiMetrics(this, apiConstruct) ==
  LET apiWidget ==
        [title |-> "API Gateway Metrics",
         left |-> <<[of |-> apiConstruct.restApi[1].restApiName, metric |-> "Count"],
                    [of |-> apiConstruct.restApi[1].restApiName, metric |-> "Latency"]>>,
         right |-> <<[of |-> apiConstruct.restApi[1].restApiName, metric |-> "4XXError"],
                     [of |-> apiConstruct.restApi[1].restApiName, metric |-> "5XXError"]>>]
  IN [this EXCEPT !.dashboard =
        Some([@[1] EXCEPT !.widgets = Append(@, apiWidget)])]

\* MetricsOf that reads the metric of the first function only
MetricsOf_FirstOnly(lambdaFunctions, metric) ==
  [i \in 1..(IF lambdaFunctions = <<>> THEN 0 ELSE 1) |->
     [of |-> MapGet(lambdaFunctions, lambdaFunctions[i].key)[1].functionName,
      metric |-> metric]]

\* functionNames.map(name => lambdaFunctions[name].metricXxx())
MetricsOf(lambdaFunctions, metric) ==
  [i \in 1..Len(lambdaFunctions) |->
     [of |-> MapGet(lambdaFunctions, lambdaFunctions[i].key)[1].functionName,
      metric |-> metric]]

addLambdaMetrics(this, lambdaFunctions) ==
  LET lambdaDurationWidget ==
        [title |-> "Lambda Duration",
         left |-> MetricsOf(lambdaFunctions, "Duration"),
         right |-> <<>>]
      lambdaInvocationWidget ==
        [title |-> "Lambda Invocations & Errors",
         left |-> MetricsOf(lambdaFunctions, "Invocations"),
         right |-> MetricsOf(lambdaFunctions, "Errors")]
  IN [this EXCEPT !.dashboard =
        Some([@[1] EXCEPT !.widgets =
                @ \o <<lambdaDurationWidget, lambdaInvocationWidget>>])]

\* MonitoringConstruct.constructor
MonitoringConstruct(monitoringConfig, projectName, environment, apiConstruct, fns) ==
  IF ~TruthyObj(monitoringConfig) THEN NewMonitoringConstruct
  ELSE LET withDashboard ==
             [NewMonitoringConstruct EXCEPT !.dashboard =
                Some([dashboardName |->
                        Named(projectName, environment,
                              <<"-", "d", "a", "s", "h", "b", "o", "a", "r", "d">>),
                      widgets |-> <<>>])]
       IN addLambdaMetrics(addApiMetrics(withDashboard, apiConstruct), fns)

\* ------------------------------------------------------------------------
\* Stack outputs
\* ------------------------------------------------------------------------
\* new cdk.CfnOutput(this, id, { value })
CfnOutput(outs, id, value) == Append(outs, [id |-> id, value |-> value])

\* the fallback of `s3.websiteUrl || 'Not configured'`
NotConfigured == <<"N", "o", "t", " ", "c", "o", "n", "f", "i", "g", "u", "r", "e", "d">>

WebsiteUrl == <<"W", "e", "b", "s", "i", "t", "e", "U", "r", "l">>
CloudFrontUrl == <<"C", "l", "o", "u", "d", "F", "r", "o", "n", "t", "U", "r", "l">>
ApiUrl == <<"A", "p", "i", "U", "r", "l">>
S3BucketName == <<"S", "3", "B", "u", "c", "k", "e", "t", "N", "a", "m", "e">>
DynamoTable == <<"D", "y", "n", "a", "m", "o", "T", "a", "b", "l", "e">>
AuroraClusterEndpoint ==
  <<"A", "u", "r", "o", "r", "a", "C", "l", "u", "s", "t", "e", "r",
    "E", "n", "d", "p", "o", "i", "n", "t">>

\* TableOutputs emitting a single output, for the first table only
TableOutputs_FirstOnly(outs, tables, i) ==
  IF i = 0 THEN outs
  ELSE CfnOutput(outs, DynamoTable \o tables[1].key, tables[1].value.tableName)

RECURSIVE TableOutputs(_, _, _)
\* Object.entries(database.dynamoTables).forEach(([name, table]) => new CfnOutput(...))
TableOutputs(outs, tables, i) ==
  IF i = 0 THEN outs
  ELSE CfnOutput(TableOutputs(outs, tables, i - 1),
                 DynamoTable \o tables[i].key, tables[i].value.tableName)

\* StackOutputs without the enableWebsiteHosting guard on WebsiteUrl
StackOutputs_NoHostingGuard(cfg, db, apiConstruct, s3Construct) ==
  LET o1 == CfnOutput(<<>>, ApiUrl, apiConstruct.restApi[1].url)
      o2 == CfnOutput(o1, WebsiteUrl,
                   IF TruthyStr(s3Construct.websiteUrl) THEN s3Construct.websiteUrl[1]
                   ELSE NotConfigured)
      o3 == IF TruthyStr(s3Construct.distributionDomainName)
            THEN CfnOutput(o2, CloudFrontUrl,
                           https \o s3Construct.distributionDomainName[1])
            ELSE o2
      o4 == CfnOutput(o3, S3BucketName, s3Construct.bucket[1].bucketName)
      o5 == IF cfg.database.type = dynamodb /\ TruthyObj(db.dynamoTables)
            THEN TableOutputs(o4, db.dynamoTables[1], Len(db.dynamoTables[1]))
            ELSE o4
  IN IF cfg.database.type = auroraServerless /\ TruthyObj(db.auroraCluster)
     THEN CfnOutput(o5, AuroraClusterEndpoint, db.auroraCluster[1].socketAddress)
     ELSE o5

\* the "Stack Outputs" part of ServerlessWebAppStack.constructor
StackOutputs(cfg, db, apiConstruct, s3Construct) ==
  LET o1 == CfnOutput(<<>>, ApiUrl, apiConstruct.restApi[1].url)
      o2 == IF cfg.s3.enableWebsiteHosting
            THEN CfnOutput(o1, WebsiteUrl,
                   IF TruthyStr(s3Construct.websiteUrl) THEN s3Construct.websiteUrl[1]
                   ELSE NotConfigured)
            ELSE o1
      o3 == IF TruthyStr(s3Construct.distributionDomainName)
            THEN CfnOutput(o2, CloudFrontUrl,
                           https \o s3Construct.distributionDomainName[1])
            ELSE o2
      o4 == CfnOutput(o3, S3BucketName, s3Construct.bucket[1].bucketName)
      o5 == IF cfg.database.type = dynamodb /\ TruthyObj(db.dynamoTables)
            THEN TableOutputs(o4, db.dynamoTables[1], Len(db.dynamoTables[1]))
            ELSE o4
  IN IF cfg.database.type = auroraServerless /\ TruthyObj(db.auroraCluster)
     THEN CfnOutput(o5, AuroraClusterEndpoint, db.auroraCluster[1].socketAddress)
     ELSE o5

\* ------------------------------------------------------------------------
\* ServerlessWebAppStack.constructor, statement by statement
\* ------------------------------------------------------------------------
\* the object graph one composition has built
Graph ==
  [database |-> database, api |-> api, s3 |-> s3, monitoring |-> monitoring,
   outputs |-> outputs]

Init ==
  /\ config \in AppConfigs
  /\ pc = "database"
  /\ database = NewDatabaseConstruct
  /\ api = NewApiConstruct
  /\ s3 = NewS3Construct
  /\ monitoring = None
  /\ outputs = <<>>
  /\ run = 1
  /\ prev = None
  /\ lookup = None
  /\ app = AppNotRun
  /\ sh = ScriptNotRun

\* const database = new DatabaseConstruct(this, 'Database', {...})
StackDatabase ==
  /\ pc = "database"
  /\ database' = DatabaseConstruct(config.database, config.projectName, config.environment)
  /\ pc' = "api"
  /\ UNCHANGED <<config, api, s3, monitoring, outputs, run, prev, lookup, app, sh>>

\* StackApi handing over a DatabaseConstruct whose constructor has not run
StackApi_UnbuiltDatabase ==
  /\ pc = "api"
  /\ api' = ApiConstruct(config.api, config.lambda, config.projectName,
                         config.environment, NewDatabaseConstruct)
  /\ pc' = "s3"
  /\ UNCHANGED <<config, database, s3, monitoring, outputs, run, prev, lookup, app, sh>>

\* const api = new ApiConstruct(this, 'Api', {...})
StackApi ==
  /\ pc = "api"
  /\ api' = ApiConstruct(config.api, config.lambda, config.projectName,
                         config.environment, database)
  /\ pc' = "s3"
  /\ UNCHANGED <<config, database, s3, monitoring, outputs, run, prev, lookup, app, sh>>

\* const s3 = new S3Construct(this, 'S3', {...})
StackS3 ==
  /\ pc = "s3"
  /\ \E random \in RandomSuffixes :
       s3' = S3Construct(config.s3, config.projectName, config.environment, random)
  /\ pc' = "monitoring"
  /\ UNCHANGED <<config, database, api, monitoring, outputs, run, prev, lookup, app, sh>>

\* StackMonitoring without the `if (config.monitoring)` guard, falling back to
\* a default monitoring configuration
StackMonitoring_Always ==
  /\ pc = "monitoring"
  /\ monitoring' =
       Some(MonitoringConstruct(
              IF TruthyObj(config.monitoring) THEN config.monitoring
              ELSE Some(CHOOSE m \in MonitoringConfigs : TRUE),
              config.projectName, config.environment, api, api.lambdaFunctions))
  /\ pc' = "outputs"
  /\ UNCHANGED <<config, database, api, s3, outputs, run, prev, lookup, app, sh>>

\* if (config.monitoring) { new MonitoringConstruct(this, 'Monitoring', {...}) }
StackMonitoring ==
  /\ pc = "monitoring"
  /\ monitoring' =
       IF TruthyObj(config.monitoring)
       THEN Some(MonitoringConstruct(config.monitoring, config.projectName,
                                     config.environment, api, api.lambdaFunctions))
       ELSE None
  /\ pc' = "outputs"
  /\ UNCHANGED <<config, database, api, s3, outputs, run, prev, lookup, app, sh>>

\* the CfnOutput statements, up to the end of the constructor
StackEmitOutputs ==
  /\ pc = "outputs"
  /\ outputs' = StackOutputs(config, database, api, s3)
  /\ pc' = "done"
  /\ UNCHANGED <<config, database, api, s3, monitoring, run, prev, lookup, app, sh>>

\* the app is synthesized again from the same configuration snapshot: a new
\* App, a new stack, nothing kept in memory from the run before
Recompose ==
  /\ pc = "done"
  /\ run < MaxRuns
  /\ prev' = Some(Graph)
  /\ run' = run + 1
  /\ database' = NewDatabaseConstruct
  /\ api' = NewApiConstruct
  /\ s3' = NewS3Construct
  /\ monitoring' = None
  /\ outputs' = <<>>
  /\ pc' = "database"
  /\ UNCHANGED <<config, lookup, app, sh>>

Next ==
  \/ StackDatabase
  \/ StackApi
  \/ StackS3
  \/ StackMonitoring
  \/ StackEmitOutputs
  \/ Recompose

Spec == Init /\ [][Next]_vars

\* ------------------------------------------------------------------------
\* A caller of the database construct's accessor
\* ------------------------------------------------------------------------
\* the names a caller asks for: every name of the catalog, so that with at
\* most MaxTables tables built some name is always absent from the map
TableNames == {TableCatalog[i].name : i \in 1..Len(TableCatalog)}

\* database.getDynamoTable(tableName) on the constructed DatabaseConstruct
GetDynamoTable ==
  /\ pc = "api"
  /\ \E tableName \in TableNames :
       lookup' = Some([tableName |-> tableName] @@ getDynamoTable(database, tableName))
  /\ UNCHANGED <<config, pc, database, api, s3, monitoring, outputs, run, prev, app, sh>>

NextAccessor ==
  \/ StackDatabase
  \/ GetDynamoTable

SpecAccessor == Init /\ [][NextAccessor]_vars

\* ------------------------------------------------------------------------
\* bin/app.ts
\* ------------------------------------------------------------------------
\* export const defaultConfig: AppConfig (config/app-config.ts); account and
\* region are the optional fields it does not set
defaultConfig ==
  [projectName |-> <<"m", "y", "-", "s", "e", "r", "v", "e", "r", "l", "e", "s", "s",
                     "-", "a", "p", "p">>,
   environment |-> <<"d", "e", "v">>,
   account |-> None,
   region |-> None,
   database |-> [type |-> dynamodb,
                 dynamoTables |-> Some(<<TableCatalog[1], TableCatalog[2]>>),
                 auroraConfig |-> None],
   api |-> [stageName |-> <<"a", "p", "i">>,
            throttle |-> [rateLimit |-> 1000, burstLimit |-> 2000],
            cors |-> [allowOrigins |-> <<<<"*">>>>,
                      allowMethods |-> <<GET, POST, PUT, DELETE,
                                         <<"O", "P", "T", "I", "O", "N", "S">>>>,
                      allowHeaders |->
                        <<<<"C", "o", "n", "t", "e", "n", "t", "-", "T", "y", "p", "e">>,
                          <<"A", "u", "t", "h", "o", "r", "i", "z", "a", "t", "i", "o",
                            "n">>>>]],
   lambda |-> [runtime |-> <<"n", "o", "d", "e", "j", "s", "1", "8", ".", "x">>,
               timeout |-> 30,
               memorySize |-> 256],
   s3 |-> [enableWebsiteHosting |-> TRUE,
           enableCloudFront |-> Some(TRUE),
           customDomain |-> None],
   monitoring |-> Some([enableXRay |-> TRUE,
                        enableCloudWatchLogs |-> TRUE,
                        logRetentionDays |-> 14])]

\* what app.node.tryGetContext(key) can return for each key: undefined when
\* the key is not in the context, the empty string for `-c key=`, or a value
Contexts ==
  [projectName : {None, Some(<<>>), Some(<<"b", "l", "o", "g">>)},
   environment : {None, Some(<<>>), Some(prod)},
   account : {None, Some(<<>>), Some(<<"1", "1", "1", "1", "1", "1", "1", "1", "1", "1",
                                        "1", "1">>)},
   region : {None, Some(<<>>), Some(<<"e", "u", "-", "w", "e", "s", "t", "-", "1">>)}]

\* process.env as far as app.ts reads it
ProcessEnvs ==
  [CDK_DEFAULT_ACCOUNT : {None, Some(<<"2", "2", "2", "2", "2", "2", "2", "2", "2", "2",
                                       "2", "2">>)},
   CDK_DEFAULT_REGION : {None, Some(<<"u", "s", "-", "e", "a", "s", "t", "-", "1">>)}]

\* a || b on values that are a string or undefined
OrElse(a, b) == IF TruthyStr(a) THEN a ELSE b

\* the config literal with ...defaultConfig written after the four overrides,
\* so that the keys defaultConfig sets win
BuildConfig_DefaultsLast(context, processEnv) ==
  [defaultConfig EXCEPT
     !.account = OrElse(context.account, processEnv.CDK_DEFAULT_ACCOUNT),
     !.region = OrElse(context.region, processEnv.CDK_DEFAULT_REGION)]

\* const config = { ...defaultConfig, projectName: ..., environment: ...,
\*                  account: ..., region: ... }
BuildConfig(context, processEnv) ==
  [defaultConfig EXCEPT
     !.projectName = OrElse(context.projectName, Some(defaultConfig.projectName))[1],
     !.environment = OrElse(context.environment, Some(defaultConfig.environment))[1],
     !.account = OrElse(context.account, processEnv.CDK_DEFAULT_ACCOUNT),
     !.region = OrElse(context.region, processEnv.CDK_DEFAULT_REGION)]

\* `Serverless Web Application Stack for ${projectName} (${environment})`
Description(projectName, environment) ==
  <<"S", "e", "r", "v", "e", "r", "l", "e", "s", "s", " ", "W", "e", "b", " ", "A", "p",
    "p", "l", "i", "c", "a", "t", "i", "o", "n", " ", "S", "t", "a", "c", "k", " ", "f",
    "o", "r", " ">> \o projectName \o <<" ", "(">> \o environment \o <<")">>

\* the program starts: only the module-level defaultConfig exists
InitApp ==
  /\ app \in [pc : {"config"}, context : Contexts, processEnv : ProcessEnvs, stack : {None}]
  /\ config = defaultConfig
  /\ pc = "database"
  /\ database = NewDatabaseConstruct
  /\ api = NewApiConstruct
  /\ s3 = NewS3Construct
  /\ monitoring = None
  /\ outputs = <<>>
  /\ run = 1
  /\ prev = None
  /\ lookup = None
  /\ sh = ScriptNotRun

\* the body of app.ts: build config, then new ServerlessWebAppStack(app, id, props)
AppMain ==
  /\ app.pc = "config"
  /\ config' = BuildConfig(app.context, app.processEnv)
  /\ app' = [app EXCEPT
       !.pc = "stack",
       !.stack = Some([id |-> Named(config'.projectName, config'.environment, <<>>),
                       env |-> [account |-> config'.account, region |-> config'.region],
                       description |->
                         Description(config'.projectName, config'.environment)])]
  /\ UNCHANGED <<pc, database, api, s3, monitoring, outputs, run, prev, lookup, sh>>

NextApp == AppMain

SpecApp == InitApp /\ [][NextApp]_vars

\* ------------------------------------------------------------------------
\* scripts/deploy.sh
\* ------------------------------------------------------------------------
\* options as they are typed, value included; "-p" alone is an option whose
\* value is whatever word follows it, or nothing
OptionWords ==
  {<<"-e", "prod">>, <<"--environment", "staging">>, <<"-e", "qa">>,
   <<"-p", "app">>, <<"--project">>, <<"-r", "us-west-2">>,
   <<"--profile", "production">>, <<"-f">>, <<"--force">>, <<"-h">>, <<"-x">>}

RECURSIVE Flatten(_)
\* the words of a command line made of the given options
Flatten(options) ==
  IF options = <<>> THEN <<>> ELSE Head(options) \o Flatten(Tail(options))

\* "$@": command lines of at most MaxArgs options
CommandLines ==
  {Flatten(options) : options \in UNION {[1..n -> OptionWords] : n \in 0..MaxArgs}}

\* what the user types at a `read -n 1 -r` prompt: one character, or Enter
\* alone (the empty reply); None is end of input, on which read fails
Replies == {Some("y"), Some("Y"), Some("n"), Some("N"), Some("x"), Some(""), None}

\* the exit status of a command that fails
FailStatus == {1, 2}

\* exit n, and the exit `set -e` makes when a command fails with status n
Exit(s, n) == [s EXCEPT !.pc = "exit", !.status = Some(n)]

\* a command of npm or cdk is run
Run(s, command) == [s EXCEPT !.ran = Append(@, command)]

\* echo of a message
Echo(s, message) == [s EXCEPT !.out = Append(@, message)]

\* the two prompts of the script
ProductionPrompt == "Are you sure you want to continue? (y/N): "
ContinuePrompt == "Continue with deployment? (Y/n): "

\* read -p prompt -n 1 -r
Read(s, prompt, reply) ==
  [s EXCEPT !.prompts = Append(@, [prompt |-> prompt, reply |-> reply]),
            !.REPLY = IF reply = None THEN "" ELSE reply[1]]

\* the script is started on a command line, its defaults assigned
InitDeploy ==
  /\ sh \in {[pc |-> "parse", args |-> line, argv |-> line,
              ENVIRONMENT |-> "dev", PROJECT_NAME |-> "", PROFILE |-> "", REGION |-> "",
              FORCE_DEPLOY |-> FALSE, CDK_CONTEXT |-> <<>>, AWS_PROFILE |-> None,
              REPLY |-> "", ran |-> <<>>, prompts |-> <<>>, out |-> <<>>,
              status |-> None] : line \in CommandLines}
  /\ config = defaultConfig
  /\ pc = "database"
  /\ database = NewDatabaseConstruct
  /\ api = NewApiConstruct
  /\ s3 = NewS3Construct
  /\ monitoring = None
  /\ outputs = <<>>
  /\ run = 1
  /\ prev = None
  /\ lookup = None
  /\ app = AppNotRun

\* one step of the script takes it to the state next
ScriptStep(next) ==
  /\ sh' = next
  /\ UNCHANGED <<config, pc, database, api, s3, monitoring, outputs, run, prev, lookup, app>>

\* VAR="$2"; shift 2.  With no second word the value is empty and shift 2
\* fails, which under set -e ends the script
TakeValue(s, field) ==
  IF Len(s.argv) >= 2
  THEN [s EXCEPT ![field] = s.argv[2], !.argv = SubSeq(s.argv, 3, Len(s.argv))]
  ELSE Exit([s EXCEPT ![field] = ""], 1)

\* one turn of the while loop over the arguments
ParseArgument ==
  /\ sh.pc = "parse"
  /\ sh.argv # <<>>
  /\ ScriptStep(
       CASE sh.argv[1] \in {"-e", "--environment"} -> TakeValue(sh, "ENVIRONMENT")
         [] sh.argv[1] \in {"-p", "--project"} -> TakeValue(sh, "PROJECT_NAME")
         [] sh.argv[1] \in {"-r", "--region"} -> TakeValue(sh, "REGION")
         [] sh.argv[1] = "--profile" -> TakeValue(sh, "PROFILE")
         [] sh.argv[1] \in {"-f", "--force"} ->
              [sh EXCEPT !.FORCE_DEPLOY = TRUE, !.argv = Tail(sh.argv)]
         [] sh.argv[1] \in {"-h", "--help"} -> Exit(Echo(sh, "help"), 0)
         [] OTHER -> Exit(Echo(Echo(sh, "Unknown option"), "help"), 1))

\* ValidateParameters without the check of the environment
ValidateParameters_AnyEnvironment ==
  /\ sh.pc = "parse"
  /\ sh.argv = <<>>
  /\ ScriptStep(
       IF sh.PROJECT_NAME = ""
       THEN Exit(Echo(Echo(sh, "Error: Project name is required"), "help"), 1)
       ELSE [sh EXCEPT !.pc = "tools"])

\* the loop has ended: validate the project name and the environment
ValidateParameters ==
  /\ sh.pc = "parse"
  /\ sh.argv = <<>>
  /\ ScriptStep(
       IF sh.PROJECT_NAME = ""
       THEN Exit(Echo(Echo(sh, "Error: Project name is required"), "help"), 1)
       ELSE IF sh.ENVIRONMENT \notin {"dev", "staging", "prod"}
            THEN Exit(Echo(sh, "Error: Environment must be dev, staging, or prod"), 1)
            ELSE [sh EXCEPT !.pc = "tools"])

\* command -v aws, command -v cdk
CheckTools ==
  /\ sh.pc = "tools"
  /\ \E aws \in BOOLEAN, cdk \in BOOLEAN :
       ScriptStep(
         IF ~aws THEN Exit(Echo(sh, "Error: AWS CLI is not installed"), 1)
         ELSE IF ~cdk THEN Exit(Echo(sh, "Error: AWS CDK is not installed"), 1)
              ELSE [sh EXCEPT !.pc = "dependencies"])

\* npm install when there is no node_modules directory
InstallDependencies ==
  /\ sh.pc = "dependencies"
  /\ \/ ScriptStep([sh EXCEPT !.pc = "context"])
     \/ ScriptStep([Run(sh, "npm install") EXCEPT !.pc = "context"])
     \/ \E n \in FailStatus : ScriptStep(Exit(Run(sh, "npm install"), n))

\* CDK_CONTEXT and AWS_PROFILE
BuildContext ==
  /\ sh.pc = "context"
  /\ ScriptStep(
       [sh EXCEPT
          !.CDK_CONTEXT =
            <<"-c", "projectName=", sh.PROJECT_NAME, "-c", "environment=", sh.ENVIRONMENT>>
            \o (IF sh.REGION # "" THEN <<"-c", "region=", sh.REGION>> ELSE <<>>),
          !.AWS_PROFILE = IF sh.PROFILE # "" THEN Some(sh.PROFILE) ELSE None,
          !.pc = "production"])

\* the confirmation for production
ConfirmProduction ==
  /\ sh.pc = "production"
  /\ IF sh.ENVIRONMENT = "prod" /\ sh.FORCE_DEPLOY = FALSE
     THEN \E reply \in Replies :
            LET asked == Read(sh, ProductionPrompt, reply)
            IN ScriptStep(
                 IF reply = None THEN Exit(asked, 1)
                 ELSE IF asked.REPLY \notin {"y", "Y"}
                      THEN Exit(Echo(asked, "Deployment cancelled"), 0)
                      ELSE [asked EXCEPT !.pc = "bootstrap"])
     ELSE ScriptStep([sh EXCEPT !.pc = "bootstrap"])

\* if ! cdk bootstrap ... 2>/dev/null; then cdk bootstrap ...; fi
Bootstrap ==
  /\ sh.pc = "bootstrap"
  /\ \/ ScriptStep([Run(sh, "cdk bootstrap") EXCEPT !.pc = "build"])
     \/ ScriptStep([Run(Run(sh, "cdk bootstrap"), "cdk bootstrap") EXCEPT !.pc = "build"])
     \/ \E n \in FailStatus :
          ScriptStep(Exit(Run(Run(sh, "cdk bootstrap"), "cdk bootstrap"), n))

\* npm run build
BuildProject ==
  /\ sh.pc = "build"
  /\ \/ ScriptStep([Run(sh, "npm run build") EXCEPT !.pc = "diff"])
     \/ \E n \in FailStatus : ScriptStep(Exit(Run(sh, "npm run build"), n))

\* DiffAndConfirm that goes on to deploy whatever the reply is
DiffAndConfirm_IgnoresReply ==
  /\ sh.pc = "diff"
  /\ IF sh.FORCE_DEPLOY = FALSE
     THEN \E reply \in Replies :
            LET asked == Read(Run(sh, "cdk diff"), ContinuePrompt, reply)
            IN ScriptStep(
                 IF reply = None THEN Exit(asked, 1)
                 ELSE [asked EXCEPT !.pc = "deploy"])
     ELSE ScriptStep([sh EXCEPT !.pc = "deploy"])

\* cdk diff || true, and the confirmation to continue
DiffAndConfirm ==
  /\ sh.pc = "diff"
  /\ IF sh.FORCE_DEPLOY = FALSE
     THEN \E reply \in Replies :
            LET asked == Read(Run(sh, "cdk diff"), ContinuePrompt, reply)
            IN ScriptStep(
                 IF reply = None THEN Exit(asked, 1)
                 ELSE IF asked.REPLY \in {"n", "N"}
                      THEN Exit(Echo(asked, "Deployment cancelled"), 0)
                      ELSE [asked EXCEPT !.pc = "deploy"])
     ELSE ScriptStep([sh EXCEPT !.pc = "deploy"])

\* cdk deploy $CDK_CONTEXT --require-approval never
Deploy ==
  /\ sh.pc = "deploy"
  /\ \/ ScriptStep([Run(sh, "cdk deploy") EXCEPT !.pc = "list"])
     \/ \E n \in FailStatus : ScriptStep(Exit(Run(sh, "cdk deploy"), n))

\* cdk list $CDK_CONTEXT and the closing messages; the script ends
ListStacks ==
  /\ sh.pc = "list"
  /\ \/ ScriptStep(Exit(Run(Echo(sh, "Deployment completed successfully!"), "cdk list"), 0))
     \/ \E n \in FailStatus :
          ScriptStep(Exit(Run(Echo(sh, "Deployment completed successfully!"), "cdk list"), n))

NextDeploy ==
  \/ ParseArgument
  \/ ValidateParameters
  \/ CheckTools
  \/ InstallDependencies
  \/ BuildContext
  \/ ConfirmProduction
  \/ Bootstrap
  \/ BuildProject
  \/ DiffAndConfirm
  \/ Deploy
  \/ ListStacks

SpecDeploy == InitDeploy /\ [][NextDeploy]_vars

\* ------------------------------------------------------------------------
\* Properties
\* ------------------------------------------------------------------------
\* the ids of the outputs emitted so far
OutputIds == {outputs[i].id : i \in 1..Len(outputs)}

\* the value of the output with the given id (ids are unique)
OutputValue(id) == outputs[CHOOSE i \in 1..Len(outputs) : outputs[i].id = id].value

IsPrefix(p, s) == Len(p) <= Len(s) /\ SubSeq(s, 1, Len(p)) = p

DatabaseConstructed == pc # "database"
ApiConstructed == pc \notin {"database", "api"}
S3Constructed == pc \notin {"database", "api", "s3"}

\* the declared tier type lacks its sub-spec
MissingSubSpec(dbConfig) ==
  \/ dbConfig.type = dynamodb /\ dbConfig.dynamoTables = None
  \/ dbConfig.type = auroraServerless /\ dbConfig.auroraConfig = None

\* C1: once DatabaseConstruct is constructed, exactly one of dynamoTables and
\* auroraCluster is populated: never both, never neither.
C1_ExactlyOneHandle ==
  DatabaseConstructed =>
    (TruthyObj(database.dynamoTables) /\ ~TruthyObj(database.auroraCluster))
      \/ (~TruthyObj(database.dynamoTables) /\ TruthyObj(database.auroraCluster))

\* C2: a configuration whose declared tier type lacks its sub-spec never gets
\* past the construction of the data tier: DatabaseConstruct does not
\* complete with an empty handle.
C2_MissingSubSpecFails ==
  MissingSubSpec(config.database) =>
    ~(DatabaseConstructed /\ database = NewDatabaseConstruct)

\* C3: with CloudFront disabled (false or unset) the outputs hold no
\* CloudFrontUrl, and hold a WebsiteUrl exactly when website hosting is
\* enabled.
C3_NoOutputForDisabledFeature ==
  (pc = "done" /\ ~TruthyBool(config.s3.enableCloudFront)) =>
    /\ CloudFrontUrl \notin OutputIds
    /\ (WebsiteUrl \in OutputIds) = config.s3.enableWebsiteHosting

C3_Witness ==
  /\ pc = "done"
  /\ config.s3.enableCloudFront = None
  /\ config.s3.enableWebsiteHosting
  /\ WebsiteUrl \in OutputIds
  /\ CloudFrontUrl \notin OutputIds

\* C4: with CloudFront enabled, whatever the hosting flag, both WebsiteUrl and
\* CloudFrontUrl are emitted and carry the same address.
C4_BothOutputsSameAddress ==
  (pc = "done" /\ TruthyBool(config.s3.enableCloudFront)) =>
    /\ WebsiteUrl \in OutputIds
    /\ CloudFrontUrl \in OutputIds
    /\ OutputValue(WebsiteUrl) = OutputValue(CloudFrontUrl)
    /\ OutputValue(CloudFrontUrl) = https \o s3.distribution[1].distributionDomainName

\* C5: the bucket's access control follows the two flags: CloudFront enabled
\* means no public read and all public access blocked; hosting without
\* CloudFront means public read; neither means no public read.
C5_AccessControl ==
  S3Constructed =>
    /\ TruthyBool(config.s3.enableCloudFront) =>
         /\ ~s3.bucket[1].publicReadAccess
         /\ s3.bucket[1].blockPublicAccess = "BLOCK_ALL"
    /\ (~TruthyBool(config.s3.enableCloudFront) /\ config.s3.enableWebsiteHosting) =>
         s3.bucket[1].publicReadAccess
    /\ (~TruthyBool(config.s3.enableCloudFront) /\ ~config.s3.enableWebsiteHosting) =>
         ~s3.bucket[1].publicReadAccess

C5_Witness ==
  /\ S3Constructed
  /\ config.s3.enableCloudFront = Some(TRUE)
  /\ config.s3.enableWebsiteHosting
  /\ ~s3.bucket[1].publicReadAccess
  /\ s3.bucket[1].blockPublicAccess = "BLOCK_ALL"

\* C6: every function of one ApiConstruct holds the same role object and the
\* same environment object, and the construct has created exactly one role.
C6_SharedRoleAndEnvironment ==
  ApiConstructed =>
    /\ Len(api.roles) = 1
    /\ \A i, j \in 1..Len(api.lambdaFunctions) :
         /\ api.lambdaFunctions[i].value.role = api.lambdaFunctions[j].value.role
         /\ api.lambdaFunctions[i].value.environment
              = api.lambdaFunctions[j].value.environment

C6_Witness ==
  /\ ApiConstructed
  /\ Len(api.lambdaFunctions) > 1
  /\ api.lambdaFunctions[1].value.role = 1
  /\ api.lambdaFunctions[Len(api.lambdaFunctions)].value.environment
       = api.lambdaFunctions[1].value.environment

\* C7: ApiConstruct holds as many functions as there are route descriptors,
\* and their keys, construct ids and derived function names are pairwise
\* distinct.
C7_OneFunctionPerDescriptor ==
  ApiConstructed =>
    /\ Len(api.lambdaFunctions) = Len(functionConfigs)
    /\ \A i, j \in 1..Len(api.lambdaFunctions) :
         i # j =>
           /\ api.lambdaFunctions[i].key # api.lambdaFunctions[j].key
           /\ api.lambdaFunctions[i].value.id # api.lambdaFunctions[j].value.id
           /\ api.lambdaFunctions[i].value.functionName
                # api.lambdaFunctions[j].value.functionName

C7_Witness ==
  /\ ApiConstructed
  /\ Len(api.lambdaFunctions) = 8
  /\ \E i \in 1..Len(api.lambdaFunctions) :
       /\ api.lambdaFunctions[i].key = GetItems
       /\ api.lambdaFunctions[i].value.functionName
            = Named(config.projectName, config.environment,
                    <<"-", "g", "e", "t", "i", "t", "e", "m", "s">>)

\* the names given to the resources of a graph
GraphNames(g) ==
  {g.api.restApi[1].restApiName, g.s3.bucket[1].bucketName}
    \cup {g.api.lambdaFunctions[i].value.functionName :
            i \in 1..Len(g.api.lambdaFunctions)}
    \cup (IF TruthyObj(g.database.dynamoTables)
          THEN {g.database.dynamoTables[1][i].value.tableName :
                  i \in 1..Len(g.database.dynamoTables[1])}
          ELSE {})
    \cup (IF TruthyObj(g.database.auroraCluster)
          THEN {g.database.auroraCluster[1].clusterIdentifier} ELSE {})

\* the numbers of tables, functions and routes of a graph
GraphCardinalities(g) ==
  [tables |-> IF TruthyObj(g.database.dynamoTables)
              THEN Len(g.database.dynamoTables[1]) ELSE 0,
   functions |-> Len(g.api.lambdaFunctions),
   routes |-> Len(g.api.restApi[1].methods)]

\* C9: a second composition of the same snapshot yields the same resource
\* names, the same output set and the same cardinalities as the first.
C9_Idempotent ==
  (pc = "done" /\ prev # None) =>
    /\ GraphNames(Graph) = GraphNames(prev[1])
    /\ Range(outputs) = Range(prev[1].outputs)
    /\ GraphCardinalities(Graph) = GraphCardinalities(prev[1])

\* the outputs whose id starts with DynamoTable
TableOutputIndexes == {i \in 1..Len(outputs) : IsPrefix(DynamoTable, outputs[i].id)}

\* C10: ApiUrl and S3BucketName are always emitted; table outputs appear only
\* for type dynamodb and then exactly one DynamoTable<name> per created table;
\* AuroraClusterEndpoint appears only for type aurora-serverless; the two
\* kinds never appear together.
C10_DatabaseOutputs ==
  pc = "done" =>
    /\ ApiUrl \in OutputIds
    /\ S3BucketName \in OutputIds
    /\ TableOutputIndexes # {} => config.database.type = dynamodb
    /\ LET tables == IF TruthyObj(database.dynamoTables)
                     THEN database.dynamoTables[1] ELSE <<>>
       IN config.database.type = dynamodb =>
            /\ Cardinality(TableOutputIndexes) = Len(tables)
            /\ \A t \in 1..Len(tables) :
                 Cardinality({i \in TableOutputIndexes :
                                /\ outputs[i].id = DynamoTable \o tables[t].key
                                /\ outputs[i].value = tables[t].value.tableName}) = 1
    /\ AuroraClusterEndpoint \in OutputIds =>
         /\ config.database.type = auroraServerless
         /\ TruthyObj(database.auroraCluster)
    /\ ~(TableOutputIndexes # {} /\ AuroraClusterEndpoint \in OutputIds)

C10_Witness ==
  /\ pc = "done"
  /\ config.database.type = dynamodb
  /\ TruthyObj(database.dynamoTables)
  /\ Len(database.dynamoTables[1]) = 2
  /\ Cardinality(TableOutputIndexes) = 2
  /\ AuroraClusterEndpoint \notin OutputIds

\* C11: no output carries an empty or placeholder value; in particular
\* WebsiteUrl never carries the 'Not configured' fallback.
C11_NoPlaceholderOutput ==
  \A i \in 1..Len(outputs) :
    /\ outputs[i].value # <<>>
    /\ outputs[i].value # NotConfigured

C11_Witness ==
  /\ pc = "done"
  /\ config.s3.enableWebsiteHosting
  /\ ~TruthyBool(config.s3.enableCloudFront)
  /\ WebsiteUrl \in OutputIds
  /\ OutputValue(WebsiteUrl) = s3.bucket[1].bucketWebsiteUrl

\* C12: every table, the cluster and the bucket of one composition carry the
\* same removal policy: RETAIN when the environment is prod, DESTROY for
\* every other environment.
C12_UniformRemovalPolicy ==
  LET expected == IF config.environment = <<"p", "r", "o", "d">>
                  THEN "RETAIN" ELSE "DESTROY"
  IN /\ TruthyObj(database.dynamoTables) =>
          \A i \in 1..Len(database.dynamoTables[1]) :
            database.dynamoTables[1][i].value.removalPolicy = expected
     /\ TruthyObj(database.auroraCluster) =>
          database.auroraCluster[1].removalPolicy = expected
     /\ TruthyObj(s3.bucket) => s3.bucket[1].removalPolicy = expected

C12_Witness ==
  /\ S3Constructed
  /\ config.environment = prod
  /\ TruthyObj(database.dynamoTables)
  /\ Len(database.dynamoTables[1]) = 2
  /\ database.dynamoTables[1][1].value.removalPolicy = "RETAIN"
  /\ s3.bucket[1].removalPolicy = "RETAIN"

\* the closed set of environment tags
KnownEnvironments ==
  {<<"d", "e", "v">>, <<"s", "t", "a", "g", "i", "n", "g">>, <<"p", "r", "o", "d">>}

\* C13: with an environment tag outside the known set, composition aborts: no
\* bucket is built from a default branch and the stack never completes.
C13_UnknownEnvironmentAborts ==
  config.environment \notin KnownEnvironments =>
    /\ s3.bucket = None
    /\ pc # "done"

\* the role's statements that are read-write grants on tables
TableGrantsOk ==
  LET statements == api.roles[1].statements
      tables == database.dynamoTables[1]
  IN /\ \A t \in 1..Len(tables) :
          \E k \in 1..Len(statements) :
            /\ statements[k].actions = {"dynamodb:ReadWriteData"}
            /\ statements[k].resource = tables[t].value.id
     /\ \A k \in 1..Len(statements) :
          /\ statements[k].actions = {"dynamodb:ReadWriteData"}
          /\ \E t \in 1..Len(tables) : statements[k].resource = tables[t].value.id

\* for the relational variant: one statement on the cluster, then read access
\* to the secret, and nothing else
ClusterGrantsOk ==
  LET statements == api.roles[1].statements
  IN /\ Len(statements) = 2
     /\ statements[1].resource = database.auroraCluster[1].clusterArn
     /\ statements[2] = [actions |-> {"secretsmanager:Read"},
                         resource |-> database.auroraSecret[1].secretArn]

\* C14 as stated: read-write on every table and nothing relational for the
\* keyed-table variant; exactly four statement-execution actions on the
\* cluster plus read access to the secret for the relational variant.
C14_FourRelationalActions ==
  ApiConstructed =>
    /\ Len(api.roles) = 1
    /\ TruthyObj(database.dynamoTables) => TableGrantsOk
    /\ TruthyObj(database.auroraCluster) =>
         /\ ClusterGrantsOk
         /\ Cardinality(api.roles[1].statements[1].actions) = 4

\* C14 amended: the relational variant is granted exactly the five rds-data
\* actions ExecuteStatement, BatchExecuteStatement, BeginTransaction,
\* CommitTransaction and RollbackTransaction on the cluster plus read access
\* to the secret; the keyed-table variant read-write on every table only.
C14_FiveRelationalActions ==
  ApiConstructed =>
    /\ Len(api.roles) = 1
    /\ TruthyObj(database.dynamoTables) => TableGrantsOk
    /\ TruthyObj(database.auroraCluster) =>
         /\ ClusterGrantsOk
         /\ api.roles[1].statements[1].actions =
              {"rds-data:ExecuteStatement", "rds-data:BatchExecuteStatement",
               "rds-data:BeginTransaction", "rds-data:CommitTransaction",
               "rds-data:RollbackTransaction"}

C14_Witness ==
  /\ ApiConstructed
  /\ TruthyObj(database.auroraCluster)
  /\ Len(api.roles[1].statements) = 2
  /\ "rds-data:RollbackTransaction" \in api.roles[1].statements[1].actions

\* the snapshot with monitoring configured
WithMonitoring == [config EXCEPT !.monitoring = Some(CHOOSE m \in MonitoringConfigs : TRUE)]

\* C15: without config.monitoring the composition completes, builds no
\* dashboard, and every other construct and output is what the same snapshot
\* with monitoring configured gives.
C15_MonitoringAbsentIsNoOp ==
  (pc = "done" /\ config.monitoring = None) =>
    /\ monitoring = None \/ monitoring[1].dashboard = None
    /\ database = DatabaseConstruct(WithMonitoring.database, WithMonitoring.projectName,
                                    WithMonitoring.environment)
    /\ api = ApiConstruct(WithMonitoring.api, WithMonitoring.lambda,
                          WithMonitoring.projectName, WithMonitoring.environment,
                          database)
    /\ \E random \in RandomSuffixes :
         s3 = S3Construct(WithMonitoring.s3, WithMonitoring.projectName,
                          WithMonitoring.environment, random)
    /\ outputs = StackOutputs(WithMonitoring, database, api, s3)

C15_Witness ==
  /\ pc = "done"
  /\ config.monitoring = None
  /\ monitoring = None
  /\ ApiUrl \in OutputIds
  /\ Len(api.lambdaFunctions) = Len(functionConfigs)

\* C16: constructs are built in the order data tier, API, static assets,
\* monitoring, outputs: the role the API construct derives covers the data
\* tier's handles, the dashboard covers every function, and no output exists
\* before every construct does.
C16_DependencyOrder ==
  /\ TruthyObj(api.restApi) =>
       /\ DatabaseConstructed
       /\ TruthyObj(database.dynamoTables) =>
            \A t \in 1..Len(database.dynamoTables[1]) :
              \E k \in 1..Len(api.roles[1].statements) :
                api.roles[1].statements[k].resource
                  = database.dynamoTables[1][t].value.id
       /\ TruthyObj(database.auroraCluster) =>
            \E k \in 1..Len(api.roles[1].statements) :
              api.roles[1].statements[k].resource = database.auroraCluster[1].clusterArn
  /\ TruthyObj(s3.bucket) =>
       /\ TruthyObj(api.restApi)
       /\ Len(api.lambdaFunctions) = Len(functionConfigs)
  /\ TruthyObj(monitoring) =>
       /\ TruthyObj(s3.bucket)
       /\ Len(monitoring[1].dashboard[1].widgets[2].left) = Len(functionConfigs)
  /\ outputs # <<>> =>
       /\ TruthyObj(s3.bucket)
       /\ TruthyObj(config.monitoring) => TruthyObj(monitoring)

C16_Witness ==
  /\ pc = "done"
  /\ TruthyObj(monitoring)
  /\ TruthyObj(database.dynamoTables)
  /\ Len(database.dynamoTables[1]) = 2
  /\ Len(api.roles[1].statements) = 2
  /\ outputs # <<>>

\* C18: the two variants are never populated together, whatever sub-specs
\* the configuration carries: a table map excludes cluster, secret and VPC,
\* and the cluster exists exactly when the secret does.
C18_NeverBothVariants ==
  /\ TruthyObj(database.dynamoTables) =>
       /\ database.auroraCluster = None
       /\ database.auroraSecret = None
       /\ database.vpc = None
  /\ TruthyObj(database.auroraCluster) <=> TruthyObj(database.auroraSecret)

C18_Witness ==
  /\ DatabaseConstructed
  /\ TruthyObj(config.database.dynamoTables)
  /\ TruthyObj(config.database.auroraConfig)
  /\ config.database.type = auroraServerless
  /\ TruthyObj(database.auroraCluster)
  /\ TruthyObj(database.auroraSecret)
  /\ database.dynamoTables = None

\* C17: asking the construct for a table while the keyed-store variant is not
\* the one set up (the relational variant is, or no table map exists) raises
\* an error instead of returning undefined.
C17_WrongVariantRaises ==
  (lookup # None /\ ~TruthyObj(database.dynamoTables)) => lookup[1].threw

\* the fields of the configuration that app.ts does not override
OtherFields == {"database", "api", "lambda", "s3", "monitoring"}

Ran(command) == \E i \in 1..Len(sh.ran) : sh.ran[i] = command

\* the prompt was shown and the user's reply to it is one of the given ones
Answered(prompt, replies) ==
  \E i \in 1..Len(sh.prompts) :
    /\ sh.prompts[i].prompt = prompt
    /\ sh.prompts[i].reply # None
    /\ sh.prompts[i].reply[1] \in replies

\* the user has declined a prompt: anything but y/Y at the production
\* confirmation, n/N at the prompt to continue
Declined ==
  \/ Answered(ProductionPrompt, {"n", "N", "x", ""})
  \/ Answered(ContinuePrompt, {"n", "N"})

\* C20: cdk deploy is run only if the script was forced, or the user did not
\* answer n/N at the prompt to continue and, for prod, answered y/Y at the
\* production confirmation; declining either prompt ends the script with
\* status 0 and without cdk deploy; with --force no prompt is shown.
C20_DeployOnlyWhenConfirmed ==
  /\ Ran("cdk deploy") =>
       \/ sh.FORCE_DEPLOY
       \/ /\ Answered(ContinuePrompt, {"y", "Y", "x", ""})
          /\ sh.ENVIRONMENT = "prod" => Answered(ProductionPrompt, {"y", "Y"})
  /\ Declined =>
       /\ sh.pc = "exit"
       /\ sh.status = Some(0)
       /\ ~Ran("cdk deploy")
  /\ sh.FORCE_DEPLOY => sh.prompts = <<>>

\* an unforced deployment to prod went through both prompts and deployed
C20_Witness ==
  /\ sh.ENVIRONMENT = "prod"
  /\ ~sh.FORCE_DEPLOY
  /\ Answered(ProductionPrompt, {"y", "Y"})
  /\ Answered(ContinuePrompt, {""})
  /\ Ran("cdk deploy")

\* the script has ended with no project name, or with an environment outside
\* dev / staging / prod, or on an option its parser does not know
BadCommandLine ==
  /\ sh.pc = "exit"
  /\ \/ sh.PROJECT_NAME = ""
     \/ sh.ENVIRONMENT \notin {"dev", "staging", "prod"}
     \/ \E i \in 1..Len(sh.out) : sh.out[i] = "Unknown option"

\* no word of the command line is -e or --environment
EnvironmentOmitted == \A i \in 1..Len(sh.args) : sh.args[i] \notin {"-e", "--environment"}

\* C21 as stated: with no project name, an environment outside dev / staging
\* / prod or an unknown option the script exits with status 1 before it runs
\* any command; when -e is omitted the environment is dev.
C21_BadCommandLineExitsOne ==
  /\ BadCommandLine => (sh.status = Some(1) /\ sh.ran = <<>>)
  /\ EnvironmentOmitted => sh.ENVIRONMENT = "dev"

\* C21 as the code has it: such a command line ends the script before any
\* command is run, with status 1 unless -h / --help was reached first, which
\* shows the help and exits with status 0; when -e is omitted the
\* environment is dev.
C21_BadCommandLineExitsEarly ==
  /\ BadCommandLine =>
       /\ sh.ran = <<>>
       /\ sh.status = IF sh.out = <<"help">> THEN Some(0) ELSE Some(1)
  /\ EnvironmentOmitted => sh.ENVIRONMENT = "dev"

\* a command line naming a project and the environment qa was refused
C21_Witness ==
  /\ sh.pc = "exit"
  /\ sh.PROJECT_NAME = "app"
  /\ sh.ENVIRONMENT = "qa"
  /\ sh.status = Some(1)
  /\ sh.ran = <<>>

\* C30: in a run without --force, once the user has declined a prompt and
\* the script has reported 'Deployment cancelled', neither cdk bootstrap nor
\* cdk deploy has been run.
C30_CancelLeavesAccountUntouched ==
  (/\ ~sh.FORCE_DEPLOY
   /\ Declined
   /\ \E i \in 1..Len(sh.out) : sh.out[i] = "Deployment cancelled")
  => (~Ran("cdk bootstrap") /\ ~Ran("cdk deploy"))

\* the one environment object the functions of the construct share
SharedEnvironment == api.environments[api.lambdaFunctions[1].value.environment]

\* the entries of the shared environment whose key starts with the prefix
VariablesWith(prefix) ==
  {i \in 1..Len(SharedEnvironment) : IsPrefix(prefix, SharedEnvironment[i].key)}

TablePrefix ==
  <<"D", "Y", "N", "A", "M", "O", "D", "B", "_", "T", "A", "B", "L", "E", "_">>

AuroraPrefix == <<"A", "U", "R", "O", "R", "A", "_">>

DatabaseType == <<"D", "A", "T", "A", "B", "A", "S", "E", "_", "T", "Y", "P", "E">>

\* C22: the shared environment holds the tier-type tag and, when the
\* construct holds tables, one DYNAMODB_TABLE_ variable per table, each
\* table's name being the value of one of them, and no Aurora variable; when
\* it holds a cluster, exactly AURORA_CLUSTER_ARN and AURORA_SECRET_ARN and no
\* table variable.
C22_OneVariablePerTable ==
  ApiConstructed =>
    /\ MapGet(SharedEnvironment, DatabaseType) # None
    /\ TruthyObj(database.dynamoTables) =>
         /\ Cardinality(VariablesWith(TablePrefix)) = Len(database.dynamoTables[1])
         /\ \A t \in 1..Len(database.dynamoTables[1]) :
              \E i \in VariablesWith(TablePrefix) :
                SharedEnvironment[i].value = database.dynamoTables[1][t].value.tableName
         /\ VariablesWith(AuroraPrefix) = {}
    /\ TruthyObj(database.auroraCluster) =>
         /\ {SharedEnvironment[i].key : i \in VariablesWith(AuroraPrefix)}
              = {AuroraPrefix \o <<"C", "L", "U", "S", "T", "E", "R", "_", "A", "R", "N">>,
                 AuroraPrefix \o <<"S", "E", "C", "R", "E", "T", "_", "A", "R", "N">>}
         /\ Cardinality(VariablesWith(AuroraPrefix)) = 2
         /\ VariablesWith(TablePrefix) = {}

\* C23: the DATABASE_TYPE variable of the functions equals
\* config.database.type, also for a dynamodb configuration whose dynamoTables
\* list is absent or empty.
C23_DatabaseTypeIsConfigured ==
  ApiConstructed => MapGet(SharedEnvironment, DatabaseType) = Some(config.database.type)

\* the method+path pairs registered on the REST API
Routes == api.restApi[1].methods

CarriesCertificate ==
  /\ TruthyObj(config.s3.customDomain)
  /\ TruthyStr(config.s3.customDomain[1].certificateArn)

\* C25: a certificate reference is created exactly when distribution is
\* enabled and the custom domain carries a certificate reference; with
\* distribution disabled no access identity, certificate or distribution is
\* created, custom domain or not.
C25_CertificateOnlyWithDistribution ==
  S3Constructed =>
    /\ s3.certificates # <<>>
         <=> (TruthyBool(config.s3.enableCloudFront) /\ CarriesCertificate)
    /\ Len(s3.certificates) <= 1
    /\ ~TruthyBool(config.s3.enableCloudFront) =>
         /\ s3.originAccessIdentities = <<>>
         /\ s3.certificates = <<>>
         /\ s3.distribution = None

\* distribution is disabled, the custom domain carries a certificate
\* reference, and nothing of the distribution was created
C25_Witness ==
  /\ S3Constructed
  /\ ~TruthyBool(config.s3.enableCloudFront)
  /\ CarriesCertificate
  /\ s3.certificates = <<>>
  /\ s3.distribution = None

\* C26: a distribution created with alias domain names is created with a
\* certificate.
C26_AliasesNeedCertificate ==
  (S3Constructed /\ s3.distribution # None) =>
    (s3.distribution[1].domainNames # None => s3.distribution[1].certificate # None)

\* C27: one bucket exists whatever the flags; distribution and
\* distributionDomainName are populated exactly when enableCloudFront is
\* true; websiteUrl is populated exactly when enableWebsiteHosting or
\* enableCloudFront is true, as the https distribution address when
\* distribution is enabled and as the bucket website URL otherwise.
C27_S3Handles ==
  S3Constructed =>
    /\ s3.bucket # None
    /\ s3.distribution # None <=> TruthyBool(config.s3.enableCloudFront)
    /\ s3.distributionDomainName # None <=> TruthyBool(config.s3.enableCloudFront)
    /\ s3.websiteUrl # None
         <=> (config.s3.enableWebsiteHosting \/ TruthyBool(config.s3.enableCloudFront))
    /\ s3.websiteUrl # None =>
         s3.websiteUrl[1] =
           IF TruthyBool(config.s3.enableCloudFront)
           THEN https \o s3.distributionDomainName[1]
           ELSE s3.bucket[1].bucketWebsiteUrl

\* hosting and distribution are both enabled and the website URL is the
\* https address of the distribution
C27_Witness ==
  /\ S3Constructed
  /\ config.s3.enableWebsiteHosting
  /\ TruthyBool(config.s3.enableCloudFront)
  /\ s3.websiteUrl = Some(https \o <<"${Distribution.DomainName}">>)
  /\ s3.bucket # None

\* the widgets of the dashboard, when there is one
Widgets == monitoring[1].dashboard[1].widgets

\* the list holds one metric of the given kind for every function of the API
\* construct and nothing else
OnePerFunction(metrics, kind) ==
  /\ Len(metrics) = Len(api.lambdaFunctions)
  /\ \A i \in 1..Len(metrics) : metrics[i].metric = kind
  /\ \A f \in 1..Len(api.lambdaFunctions) :
       Cardinality({i \in 1..Len(metrics) :
                      metrics[i].of = api.lambdaFunctions[f].value.functionName}) = 1

\* C28: with monitoring configured the dashboard has exactly three widgets
\* (API traffic, Lambda duration, Lambda invocations and errors), the
\* duration, invocation and error lists hold one metric per function, and
\* the API construct is still exactly what its constructor built.
C28_DashboardReadsOnly ==
  (pc \in {"outputs", "done"} /\ TruthyObj(config.monitoring)) =>
    /\ monitoring # None
    /\ monitoring[1].dashboard # None
    /\ Len(Widgets) = 3
    /\ Widgets[1].title = "API Gateway Metrics"
    /\ {Widgets[1].left[i].metric : i \in 1..Len(Widgets[1].left)} = {"Count", "Latency"}
    /\ {Widgets[1].right[i].metric : i \in 1..Len(Widgets[1].right)}
         = {"4XXError", "5XXError"}
    /\ Widgets[2].title = "Lambda Duration"
    /\ OnePerFunction(Widgets[2].left, "Duration")
    /\ Widgets[3].title = "Lambda Invocations & Errors"
    /\ OnePerFunction(Widgets[3].left, "Invocations")
    /\ OnePerFunction(Widgets[3].right, "Errors")
    /\ api = ApiConstruct(config.api, config.lambda, config.projectName,
                          config.environment, database)
    /\ Len(api.lambdaFunctions) = Len(functionConfigs)
    /\ Len(api.restApi[1].methods) = 8

\* the dashboard was built over the eight functions
C28_Witness ==
  /\ pc \in {"outputs", "done"}
  /\ TruthyObj(config.monitoring)
  /\ monitoring # None
  /\ Len(Widgets) = 3
  /\ Len(Widgets[2].left) = 8
  /\ Len(api.lambdaFunctions) = 8

\* the cluster setupAuroraServerless makes of the configuration in the given
\* environment
ClusterIn(environment) ==
  setupAuroraServerless(NewDatabaseConstruct, config.database, config.projectName,
                        environment).auroraCluster[1]

\* C29 as stated: the capacity floor, the capacity ceiling and the
\* auto-suspend timeout of the cluster each differ between production and
\* the other environments; production never auto-suspends, every other
\* environment auto-suspends after a fixed idle window.
C29_FloorCeilingPauseByEnvironment ==
  (DatabaseConstructed /\ TruthyObj(database.auroraCluster)) =>
    /\ \A e \in Environments \ {prod} :
         /\ ClusterIn(e).minCapacity # ClusterIn(prod).minCapacity
         /\ ClusterIn(e).maxCapacity # ClusterIn(prod).maxCapacity
         /\ ClusterIn(e).autoPauseMinutes # ClusterIn(prod).autoPauseMinutes
    /\ database.auroraCluster[1].autoPauseMinutes
         = IF config.environment = prod THEN 0 ELSE 10

\* C29 as the code has it: the capacity ceiling and the auto-suspend timeout
\* differ between production and the other environments, the capacity floor
\* is the same in all of them; production never auto-suspends, every other
\* environment auto-suspends after the same idle window.
C29_CeilingAndPauseByEnvironment ==
  (DatabaseConstructed /\ TruthyObj(database.auroraCluster)) =>
    /\ \A e \in Environments \ {prod} :
         /\ ClusterIn(e).minCapacity = ClusterIn(prod).minCapacity
         /\ ClusterIn(e).maxCapacity # ClusterIn(prod).maxCapacity
         /\ ClusterIn(e).autoPauseMinutes # ClusterIn(prod).autoPauseMinutes
    /\ database.auroraCluster[1] = ClusterIn(config.environment)
    /\ database.auroraCluster[1].autoPauseMinutes
         = IF config.environment = prod THEN 0 ELSE 10
    /\ database.auroraCluster[1].maxCapacity
         = IF config.environment = prod THEN 64 ELSE 16
    /\ database.auroraCluster[1].minCapacity = 2

\* a production cluster that is kept warm
C29_Witness ==
  /\ DatabaseConstructed
  /\ config.environment = prod
  /\ TruthyObj(database.auroraCluster)
  /\ database.auroraCluster[1].autoPauseMinutes = 0
  /\ database.auroraCluster[1].maxCapacity = 64

====
